---------------------------- MODULE Spec2Model ----------------------------
(***************************************************************************)
(* A model of the HTML -> EPUB node                                        *)
(* (src/nodes/HtmlToEpubNode/HtmlToEpubNode.node.ts) and of the RoyalRoad  *)
(* fetch node (src/unnamed/part_000).                                      *)
(*                                                                         *)
(* Numbers.  A JavaScript number that holds a length, an offset or a       *)
(* checksum is a pair <<hi, lo>> standing for hi * 2^16 + lo, with         *)
(* lo \in 0..65535; the pair keeps the exact value where a 32-bit field    *)
(* would wrap.                                                             *)
(*                                                                         *)
(* Buffers.  A Buffer is [bytes, pad]: the bytes listed, followed by       *)
(* pad * 2^16 zero bytes (the contents of Buffer.alloc).                   *)
(*                                                                         *)
(* Strings are TLA+ strings over printable ASCII and the line feed.        *)
(***************************************************************************)
EXTENDS Integers, Sequences, FiniteSets, TLC

VARIABLES
    files,      \* ZipBuilder.files
    chunks,     \* ZipBuilder.chunks
    offset,     \* ZipBuilder.offset
    result,     \* the Buffer the last call of build returned (a list of chunks)
    built,      \* how many times build has been called on the builder
    err,        \* the error the last call raised, "" when it returned
    now,        \* the clock that new Date() reads
    items,      \* HtmlToEpubNode.execute: the items, changed in place
    inputItems, \* the items as execute received them
    settings,   \* the node's parameters and its continueOnFail setting
    itemIndex,  \* the loop index i of execute
    pc,         \* where execute is
    epub,       \* the locals of the conversion of items[i]
    thrown,     \* the error execute threw, "" when none
    nextUrl,    \* fetchBook: the page to request next
    nbChapters, \* fetchBook: the number of chapters asked for
    startChapter, \* fetchBook: the first chapter to include
    chapterCount, \* fetchBook: the loop counter
    book,       \* fetchBook: the chapters collected, one S per page
    lastS,      \* fetchBook: the S of the last page included
    res,        \* fetchBook: the last response
    fpc,        \* where fetchBook is
    fetchOut,   \* what fetchBook returned or threw
    retrieved   \* how many pages the call has read from an ok response

zipVars == <<files, chunks, offset, result, built, err, now>>
epubVars == <<items, inputItems, settings, itemIndex, pc, epub, thrown>>
fetchVars == <<nextUrl, nbChapters, startChapter, chapterCount, book, lastS, res,
               fpc, fetchOut, retrieved>>

-----------------------------------------------------------------------------
(* Bounds of the model. *)

MaxFiles == 2       \* addFile calls on one builder
MaxBuilds == 1      \* build calls on one builder
MaxTicks == 1       \* seconds the clock advances

-----------------------------------------------------------------------------
(* An operator that reads a value more than once binds it to a bound       *)
(* variable first, Only({ ... v ... : v \in {e}}), so that e is evaluated   *)
(* once.                                                                   *)

Only(S) == CHOOSE v \in S : TRUE

-----------------------------------------------------------------------------
(* Numbers as pairs <<hi, lo>>. *)

Num(n) == <<n \div 65536, n % 65536>>

NumAdd(a, b) ==
    LET s == a[2] + b[2]
    IN  <<a[1] + b[1] + (s \div 65536), s % 65536>>

NumLess(a, b) == a[1] < b[1] \/ (a[1] = b[1] /\ a[2] < b[2])

\* a - b, for b <= a
NumSub(a, b) ==
    IF a[2] >= b[2] THEN <<a[1] - b[1], a[2] - b[2]>>
    ELSE <<a[1] - b[1] - 1, (a[2] + 65536) - b[2]>>

\* x >>> 0 for a non-negative integer x: x modulo 2^32
ToUint32(a) == <<a[1] % 65536, a[2]>>

RECURSIVE BitXor(_, _)
BitXor(a, b) ==
    IF a = 0 THEN b
    ELSE IF b = 0 THEN a
    ELSE (((a % 2) + (b % 2)) % 2) + (2 * BitXor(a \div 2, b \div 2))

RECURSIVE BitOr(_, _)
BitOr(a, b) ==
    IF a = 0 THEN b
    ELSE IF b = 0 THEN a
    ELSE (IF (a % 2) + (b % 2) > 0 THEN 1 ELSE 0) + (2 * BitOr(a \div 2, b \div 2))

Shl(a, n) == a * (2 ^ n)

Xor8 == [a \in 0..255 |-> [b \in 0..255 |-> BitXor(a, b)]]

Xor16(a, b) == (Xor8[a \div 256][b \div 256] * 256) + Xor8[a % 256][b % 256]

Xor32(a, b) == <<Xor16(a[1], b[1]), Xor16(a[2], b[2])>>

\* c >>> 1 and c >>> 8 on a 32-bit value
Shr1(c) == <<c[1] \div 2, ((c[1] % 2) * 32768) + (c[2] \div 2)>>
Shr8(c) == <<c[1] \div 256, ((c[1] % 256) * 256) + (c[2] \div 256)>>

AllOnes == <<65535, 65535>>      \* -1 as a 32-bit pattern

-----------------------------------------------------------------------------
(* Buffers. *)

Bytes(bs) == [bytes |-> bs, pad |-> 0]

\* Buffer.alloc(blocks * 65536)
Alloc(blocks) == [bytes |-> <<>>, pad |-> blocks]

\* buf.length
BufLen(b) == NumAdd(<<b.pad, 0>>, Num(Len(b.bytes)))

\* The characters of the model's strings: codes 32..95 and 97..126, in order.
AsciiLow == " !\"#$%&'()*+,-./0123456789:;<=>?@ABCDEFGHIJKLMNOPQRSTUVWXYZ[\\]^_"
AsciiHigh == "abcdefghijklmnopqrstuvwxyz{|}~"

CharAt(s, i) == SubSeq(s, i, i)

Ord == [c \in {CharAt(AsciiLow, i) : i \in 1..Len(AsciiLow)}
              \cup {CharAt(AsciiHigh, i) : i \in 1..Len(AsciiHigh)} \cup {"\n"} |->
            IF c = "\n" THEN 10
            ELSE IF \E i \in 1..Len(AsciiLow) : CharAt(AsciiLow, i) = c
                 THEN 31 + (CHOOSE i \in 1..Len(AsciiLow) : CharAt(AsciiLow, i) = c)
                 ELSE 96 + (CHOOSE i \in 1..Len(AsciiHigh) : CharAt(AsciiHigh, i) = c)]

\* Buffer.from(s, 'utf8'), for the strings of the model
Utf8(s) == Only({Bytes([i \in 1..Len(v) |-> Ord[CharAt(v, i)]] \o <<>>) : v \in {s}})

-----------------------------------------------------------------------------
(* crc32 *)

RECURSIVE TableRound(_, _)
TableRound(c, k) ==
    IF k = 0 THEN c
    ELSE TableRound(IF c[2] % 2 = 1 THEN Xor32(<<60856, 33568>>, Shr1(c))   \* 0xedb88320
                    ELSE Shr1(c), k - 1)

CRC_TABLE == [n \in 0..255 |-> TableRound(<<0, n>>, 8)]

\* one round of the loop of crc32: c = (c >>> 8) ^ CRC_TABLE[(c ^ b) & 0xff]
crcStep(c, b) == Xor32(Shr8(c), CRC_TABLE[Xor8[c[2] % 256][b]])

\* the loop of crc32 over bs[lo..hi], in that order
RECURSIVE crcLoop(_, _, _, _)
crcLoop(c, bs, lo, hi) ==
    IF lo > hi THEN c
    ELSE IF lo = hi THEN crcStep(c, bs[lo])
    ELSE Only({crcLoop(c1, bs, ((lo + hi) \div 2) + 1, hi) :
                  c1 \in {crcLoop(c, bs, lo, (lo + hi) \div 2)}})


(* The loop of crc32 over a run of zero bytes.  A round on a zero byte,    *)
(* c -> (c >>> 8) ^ CRC_TABLE[c & 0xff], multiplies the polynomial that c   *)
(* holds (bit 31 is x^0) by x^8 modulo the CRC polynomial, so the rounds    *)
(* over n zero bytes multiply c by x^(8n), found by repeated squaring.      *)

Bit(v, i) == IF i < 16 THEN (v[2] \div (2 ^ i)) % 2 ELSE (v[1] \div (2 ^ (i - 16))) % 2

\* b times x: the step CRC_TABLE is built from
TimesX(b) == IF b[2] % 2 = 1 THEN Xor32(<<60856, 33568>>, Shr1(b)) ELSE Shr1(b)

\* a times b modulo the CRC polynomial.  MulRange runs the loop over the bits
\* hi, hi - 1, ..., lo of a (bit 31 is x^0) on the state <<b, p>>, where b is
\* the multiple of b reached and p the sum so far.
MulBit(a, st, i) ==
    <<TimesX(st[1]), IF Bit(a, i) = 1 THEN Xor32(st[2], st[1]) ELSE st[2]>>

RECURSIVE MulRange(_, _, _, _)
MulRange(a, st, hi, lo) ==
    IF hi < lo THEN st
    ELSE IF hi = lo THEN MulBit(a, st, hi)
    ELSE Only({MulRange(a, s1, ((hi + lo + 1) \div 2) - 1, lo) :
                  s1 \in {MulRange(a, st, hi, (hi + lo + 1) \div 2)}})

MulMod(a, b) == Only({MulRange(x, <<y, <<0, 0>>>>, 31, 0)[2] : x \in {a}, y \in {b}})

\* h squared k times
RECURSIVE SquareTimes(_, _)
SquareTimes(h, k) ==
    IF k = 0 THEN h
    ELSE IF k = 1 THEN MulMod(h, h)
    ELSE Only({SquareTimes(h1, k - (k \div 2)) : h1 \in {SquareTimes(h, k \div 2)}})

\* x^(2^k); x itself is bit 30
XPow2(k) == SquareTimes(<<16384, 0>>, k)

\* <<x^(2^19), x^(2^20), ...>>: entry j + 1 takes c over 2^j blocks of 2^16
\* zero bytes (2^19 bits a block)
RECURSIVE BlockPowersTo(_)
BlockPowersTo(j) ==
    IF j = 0 THEN <<XPow2(19)>>
    ELSE Only({Append(t, MulMod(t[j], t[j])) : t \in {BlockPowersTo(j - 1)}})

BlockPowers == BlockPowersTo(20)

\* the rounds over blocks * 2^16 zero bytes; j counts the binary digits of
\* blocks already done
RECURSIVE crcZeros(_, _, _)
crcZeros(c, blocks, j) ==
    IF blocks = 0 THEN c
    ELSE Only({crcZeros(c2, blocks \div 2, j + 1) :
                  c2 \in {IF blocks % 2 = 1 THEN MulMod(BlockPowers[j + 1], c) ELSE c}})

\* crc32 without the complement at the end
crc32NoComplement(buf) ==
    Only({crcZeros(c1, buf.pad, 0) :
          c1 \in {crcLoop(AllOnes, bs, 1, Len(bs)) : bs \in {buf.bytes}}})

crc32(buf) ==
    Only({Xor32(c2, AllOnes) :                             \* (c ^ -1) >>> 0
          c2 \in {crcZeros(c1, buf.pad, 0) :
                  c1 \in {crcLoop(AllOnes, bs, 1, Len(bs)) :     \* c = 0 ^ -1
                          bs \in {buf.bytes}}}})

-----------------------------------------------------------------------------
(* msDosDateTime.  A Date is its UTC fields; month is getUTCMonth() + 1.    *)

msDosDateTime(d) ==
    LET year == d.year
        month == d.month
        day == d.day
        hours == d.hours
        minutes == d.minutes
        seconds == d.seconds \div 2
        time == BitOr(BitOr(Shl(hours, 11), Shl(minutes, 5)), seconds)
        date == BitOr(BitOr(Shl(year - 1980, 9), Shl(month, 5)), day)
    IN  [time |-> time, date |-> date]

\* the clock one second later (within one hour)
NextSecond(d) ==
    IF d.seconds < 59 THEN [d EXCEPT !.seconds = d.seconds + 1]
    ELSE [d EXCEPT !.seconds = 0, !.minutes = d.minutes + 1]

-----------------------------------------------------------------------------
(* Buffer writes. *)

\* buf.writeUInt16LE(v, p) raises ERR_OUT_OF_RANGE outside 0..65535
InU16(v) == 0 <= v /\ v <= 65535

U16LE(v) == <<v % 256, v \div 256>>

\* the four bytes writeUInt32LE writes for a value in 0..2^32-1
U32LE(n) == <<n[2] % 256, n[2] \div 256, n[1] % 256, n[1] \div 256>>

-----------------------------------------------------------------------------
(* zlib's deflateRawSync, a library outside the repository.  The model     *)
(* writes what a raw DEFLATE encoder may write: the listed bytes as one    *)
(* stored block (a 5-byte block header, then the bytes), and a run of zero *)
(* bytes at 1/1024 of its length.                                          *)

deflateRawSync(buf) ==
    LET n == Len(buf.bytes)
    IN  [bytes |-> <<1>> \o U16LE(n) \o U16LE(65535 - n) \o buf.bytes,
         pad |-> buf.pad \div 1024]

-----------------------------------------------------------------------------
(* ZipBuilder.  A builder is [files, chunks, offset]; addFile and build    *)
(* give the builder after the call, with err the error the call raised.    *)

UTF8_FLAG == 2048                \* 0x0800
LOCAL_SIG == <<1027, 19280>>     \* 0x04034b50
CENTRAL_SIG == <<513, 19280>>    \* 0x02014b50
EOCD_SIG == <<1541, 19280>>      \* 0x06054b50

NewZipBuilder == [files |-> <<>>, chunks |-> <<>>, offset |-> <<0, 0>>]

\* opts with no field set, and the call with opts left out
NoOpts == [k \in {} |-> TRUE]

IsBuffer(data) == "buf" \in DOMAIN data

addFile(zb, name, data, opts, clock) ==
    LET compress == ~("compress" \in DOMAIN opts /\ opts.compress = FALSE)
        method == IF compress THEN 8 ELSE 0
    IN  Only({Only({Only({
            IF ~(InU16(dt.time) /\ InU16(dt.date) /\ InU16(Len(nameBuf.bytes)))
            THEN [zb |-> zb, err |-> "ERR_OUT_OF_RANGE"]
            ELSE [zb |-> [files |-> Append(zb.files,
                                      [name |-> name, crc |-> crc, comp |-> comp,
                                       uncomp |-> BufLen(buf), method |-> method,
                                       time |-> dt.time, date |-> dt.date,
                                       offset |-> zb.offset]),
                          chunks |-> zb.chunks \o <<localHeader, comp>>,
                          offset |-> NumAdd(zb.offset,
                                            NumAdd(BufLen(localHeader), BufLen(comp)))],
                  err |-> ""] :
            localHeader \in
                {Bytes(U32LE(LOCAL_SIG) \o U16LE(20) \o U16LE(UTF8_FLAG)
                       \o U16LE(method) \o U16LE(dt.time) \o U16LE(dt.date)
                       \o U32LE(ToUint32(crc))
                       \o U32LE(ToUint32(BufLen(comp)))
                       \o U32LE(ToUint32(BufLen(buf)))
                       \o U16LE(Len(nameBuf.bytes)) \o U16LE(0)
                       \o nameBuf.bytes)}}) :
            crc \in {crc32(buf)},
            comp \in {IF compress THEN deflateRawSync(buf) ELSE buf}}) :
            buf \in {IF IsBuffer(data) THEN data.buf ELSE Utf8(data.str)},
            dt \in {msDosDateTime(IF "date" \in DOMAIN opts THEN opts.date ELSE clock)},
            nameBuf \in {Utf8(name)}})

\* centralHeader with the two size fields in each other's place
centralHeaderSizesSwapped(f) ==
    LET nameBuf == Utf8(f.name)
    IN  Bytes(U32LE(CENTRAL_SIG) \o U16LE(798) \o U16LE(20) \o U16LE(2048)
              \o U16LE(f.method) \o U16LE(f.time) \o U16LE(f.date)
              \o U32LE(ToUint32(f.crc))
              \o U32LE(ToUint32(f.uncomp))
              \o U32LE(ToUint32(BufLen(f.comp)))
              \o U16LE(Len(nameBuf.bytes)) \o U16LE(0) \o U16LE(0)
              \o U16LE(0) \o U16LE(0) \o U32LE(<<0, 0>>)
              \o U32LE(ToUint32(f.offset))
              \o nameBuf.bytes)

\* the central-directory header build writes for the entry f
centralHeader(f) ==
    LET nameBuf == Utf8(f.name)
    IN  Bytes(U32LE(CENTRAL_SIG) \o U16LE(798) \o U16LE(20) \o U16LE(2048)
              \o U16LE(f.method) \o U16LE(f.time) \o U16LE(f.date)
              \o U32LE(ToUint32(f.crc))
              \o U32LE(ToUint32(BufLen(f.comp)))
              \o U32LE(ToUint32(f.uncomp))
              \o U16LE(Len(nameBuf.bytes)) \o U16LE(0) \o U16LE(0)
              \o U16LE(0) \o U16LE(0) \o U32LE(<<0, 0>>)
              \o U32LE(ToUint32(f.offset))
              \o nameBuf.bytes)

\* the sum of the lengths of the buffers bs[1..k]
RECURSIVE TotalLen(_, _)
TotalLen(bs, k) == IF k = 0 THEN <<0, 0>> ELSE NumAdd(TotalLen(bs, k - 1), BufLen(bs[k]))

\* Buffer.concat(chunks) is kept as the list of its chunks: the byte at
\* position p of the result is found by ByteAt below.
build(zb) ==
    Only({
        LET centralSize == TotalLen(central, Len(central))
            centralStart == zb.offset
            eocd == Bytes(U32LE(EOCD_SIG) \o U16LE(0) \o U16LE(0)
                          \o U16LE(Len(zb.files)) \o U16LE(Len(zb.files))
                          \o U32LE(ToUint32(centralSize))
                          \o U32LE(ToUint32(centralStart))
                          \o U16LE(0))
        IN  IF ~InU16(Len(zb.files))
            THEN [zb |-> [zb EXCEPT !.chunks = zb.chunks \o central,
                                    !.offset = NumAdd(zb.offset, centralSize)],
                  err |-> "ERR_OUT_OF_RANGE", buffer |-> <<>>]
            ELSE [zb |-> [zb EXCEPT !.chunks = zb.chunks \o central \o <<eocd>>,
                                    !.offset = NumAdd(NumAdd(zb.offset, centralSize),
                                                      BufLen(eocd))],
                  err |-> "", buffer |-> zb.chunks \o central \o <<eocd>>] :
        central \in {[k \in 1..Len(zb.files) |-> centralHeader(zb.files[k])] \o <<>>}})

-----------------------------------------------------------------------------
(* The callers of a ZipBuilder: any sequence of addFile and build calls.   *)

Clock0 == [year |-> 2026, month |-> 11, day |-> 2, hours |-> 11, minutes |-> 42, seconds |-> 59]
FixedDate == [year |-> 2001, month |-> 2, day |-> 3, hours |-> 4, minutes |-> 5, seconds |-> 6]
LateDate == [year |-> 2108, month |-> 1, day |-> 1, hours |-> 0, minutes |-> 0, seconds |-> 0]

\* seconds from Clock0 to d, within the hour
Elapsed(d) == ((d.minutes * 60) + d.seconds) - ((Clock0.minutes * 60) + Clock0.seconds)

NameInputs == {"mimetype", "a"}

\* Buffer.alloc(2 GiB) is the payload that takes an archive past 2^32 bytes
DataInputs == <<[str |-> ""], [str |-> "hi"], [buf |-> Alloc(32768)]>>

OptsInputs == <<NoOpts, [compress |-> FALSE, date |-> FixedDate], [date |-> LateDate]>>

\* execute has not been called
EpubIdle ==
    /\ items = <<>>
    /\ inputItems = <<>>
    /\ settings = <<>>
    /\ itemIndex = 0
    /\ pc = "idle"
    /\ epub = <<>>
    /\ thrown = ""

\* fetchBook has not been called
FetchIdle ==
    /\ nextUrl = ""
    /\ nbChapters = 0
    /\ startChapter = 0
    /\ chapterCount = 0
    /\ book = ""
    /\ lastS = ""
    /\ res = <<>>
    /\ fpc = "idle"
    /\ fetchOut = <<>>
    /\ retrieved = 0

Init ==
    /\ files = <<>>
    /\ chunks = <<>>
    /\ offset = <<0, 0>>
    /\ result = <<>>
    /\ built = 0
    /\ err = ""
    /\ now = Clock0
    /\ EpubIdle
    /\ FetchIdle

AddFile ==
    /\ Len(files) < MaxFiles
    /\ \E name \in NameInputs, d \in 1..Len(DataInputs), o \in 1..Len(OptsInputs) :
          \E r \in {addFile([files |-> files, chunks |-> chunks, offset |-> offset],
                            name, DataInputs[d], OptsInputs[o], now)} :
              /\ files' = r.zb.files
              /\ chunks' = r.zb.chunks
              /\ offset' = r.zb.offset
              /\ err' = r.err
    /\ UNCHANGED <<result, built, now>>
    /\ UNCHANGED <<epubVars, fetchVars>>

Build ==
    /\ built < MaxBuilds
    /\ \E r \in {build([files |-> files, chunks |-> chunks, offset |-> offset])} :
           /\ files' = r.zb.files
           /\ chunks' = r.zb.chunks
           /\ offset' = r.zb.offset
           /\ err' = r.err
           /\ result' = r.buffer
    /\ built' = built + 1
    /\ UNCHANGED now
    /\ UNCHANGED <<epubVars, fetchVars>>

Next == AddFile \/ Build

vars == <<zipVars, epubVars, fetchVars>>

Spec == Init /\ [][Next]_vars

-----------------------------------------------------------------------------
(* Reading an archive back: the byte at a position of the concatenation of *)
(* its chunks, and the records a ZIP reader parses from it.                *)

\* <<k, rel>>: position pos lies in chunk k, rel bytes into it; k = 0 past the end
RECURSIVE ChunkAt(_, _, _)
ChunkAt(arch, pos, k) ==
    IF k > Len(arch) THEN <<0, pos>>
    ELSE IF NumLess(pos, BufLen(arch[k])) THEN <<k, pos>>
    ELSE Only({ChunkAt(arch, rest, k + 1) : rest \in {NumSub(pos, BufLen(arch[k]))}})

ByteAt(arch, pos) ==
    Only({IF c[1] = 0 THEN -1
          ELSE IF c[2][1] = 0 /\ c[2][2] < Len(arch[c[1]].bytes)
               THEN arch[c[1]].bytes[c[2][2] + 1]
               ELSE 0 :
          c \in {ChunkAt(arch, p, 1) : p \in {pos}}})

At(pos, i) == NumAdd(pos, Num(i))

\* the n bytes from pos on; the chunk that holds pos is looked up once
ReadBytes(arch, pos, n) ==
    Only({[i \in 1..n |->
              Only({IF c[1] # 0 /\ NumLess(t, BufLen(arch[c[1]]))
                    THEN IF t[1] = 0 /\ t[2] < Len(arch[c[1]].bytes)
                         THEN arch[c[1]].bytes[t[2] + 1]
                         ELSE 0
                    ELSE ByteAt(arch, At(p, i - 1)) :
                    t \in {At(c[2], i - 1)}})] \o <<>> :
          p \in {pos}, c \in {ChunkAt(arch, q, 1) : q \in {pos}}})

\* the little-endian fields of a window w of bytes, at byte i of it (from 0)
U16In(w, i) == w[i + 1] + (256 * w[i + 2])
U32In(w, i) == <<U16In(w, i + 2), U16In(w, i)>>

ReadU16(arch, pos) == U16In(ReadBytes(arch, pos, 2), 0)

ArchLen(arch) == TotalLen(arch, Len(arch))

\* the local file header at pos
LocalAt(arch, pos) ==
    Only({[sig |-> U32In(w, 0),
           method |-> U16In(w, 8),
           time |-> U16In(w, 10),
           date |-> U16In(w, 12),
           crc |-> U32In(w, 14),
           compSize |-> U32In(w, 18),
           uncompSize |-> U32In(w, 22),
           name |-> ReadBytes(arch, At(p, 30), U16In(w, 26))] :
          w \in {ReadBytes(arch, pos, 30)}, p \in {pos}})

\* the central-directory header at pos
CentralAt(arch, pos) ==
    Only({[sig |-> U32In(w, 0),
           method |-> U16In(w, 10),
           time |-> U16In(w, 12),
           date |-> U16In(w, 14),
           crc |-> U32In(w, 16),
           compSize |-> U32In(w, 20),
           uncompSize |-> U32In(w, 24),
           offset |-> U32In(w, 42),
           name |-> ReadBytes(arch, At(p, 46), U16In(w, 28))] :
          w \in {ReadBytes(arch, pos, 46)}, p \in {pos}})

\* the end-of-central-directory record, the last 22 bytes
EocdOf(arch) ==
    Only({[sig |-> U32In(w, 0),
           count |-> U16In(w, 10),
           cdSize |-> U32In(w, 12),
           cdOffset |-> U32In(w, 16)] :
          w \in {ReadBytes(arch, NumSub(ArchLen(arch), Num(22)), 22)}})

\* where the central directory of arch really starts: it ends where the
\* end record starts
CentralStartOf(arch) ==
    NumSub(NumSub(ArchLen(arch), Num(22)), EocdOf(arch).cdSize)

\* where the k-th central-directory header of arch really starts
RECURSIVE CentralPos(_, _)
CentralPos(arch, k) ==
    IF k = 1 THEN CentralStartOf(arch)
    ELSE Only({At(prev, 46 + ReadU16(arch, At(prev, 28))) :
                  prev \in {CentralPos(arch, k - 1)}})

-----------------------------------------------------------------------------
(* Claims about the ZipBuilder, checked under Spec.                        *)

\* C1: in the archive build returns, the k-th central-directory record
\* carries the same name, crc, compressed size and uncompressed size as the
\* local file header that was written for the k-th added entry.
C1_CentralMatchesLocal ==
    result # <<>> =>
        \A k \in 1..EocdOf(result).count :
            LET c == CentralAt(result, CentralPos(result, k))
                l == LocalAt(result, files[k].offset)
            IN  /\ c.sig = CENTRAL_SIG
                /\ l.sig = LOCAL_SIG
                /\ c.name = Utf8(files[k].name).bytes
                /\ c.name = l.name
                /\ c.crc = l.crc
                /\ c.compSize = l.compSize
                /\ c.uncompSize = l.uncompSize

\* an archive of two entries, the first deflated and the second stored
C1_Witness ==
    /\ result # <<>>
    /\ EocdOf(result).count = 2
    /\ files[1].method = 8
    /\ files[2].method = 0
    /\ CentralAt(result, CentralPos(result, 1)).compSize
         # CentralAt(result, CentralPos(result, 1)).uncompSize

\* the length of the local entries of files[1..k]: 30 + filename bytes +
\* written payload, each
RECURSIVE LocalSum(_, _)
LocalSum(fs, k) ==
    IF k = 0 THEN <<0, 0>>
    ELSE NumAdd(LocalSum(fs, k - 1),
                NumAdd(Num(30 + Len(Utf8(fs[k].name).bytes)), BufLen(fs[k].comp)))

\* the length of the central-directory headers of files[1..k]
RECURSIVE CentralSum(_, _)
CentralSum(fs, k) ==
    IF k = 0 THEN <<0, 0>>
    ELSE NumAdd(CentralSum(fs, k - 1), Num(46 + Len(Utf8(fs[k].name).bytes)))

\* C2: every offset written into the archive is the real byte position of
\* what it points at: the offset of the k-th entry is the length of the
\* k - 1 local entries before it, the end record's central-directory offset
\* is the length of all local entries, its size the length of the central
\* headers, and its count the number of entries added.
C2_OffsetsAreRealPositions ==
    result # <<>> =>
        LET e == EocdOf(result)
        IN  /\ e.count <= Len(files)
            /\ \A k \in 1..e.count :
                  CentralAt(result, CentralPos(result, k)).offset
                      = LocalSum(files, k - 1)
            /\ e.cdOffset = LocalSum(files, e.count)
            /\ e.cdSize = CentralSum(files, e.count)

\* C3: once build has been called, a further addFile call raises an error
\* and adds no entry and no bytes.
C3_BuildIsTerminal ==
    [][(built >= 1 /\ built' = built)
          => (files' = files /\ chunks' = chunks /\ err' # "")]_vars

\* C4: no header or end record holds a wrapped or truncated value: every
\* size and offset written is the true size or position.
C4_NoWrappedField ==
    /\ \A k \in 1..Len(files) :
          LET l == LocalAt(chunks, files[k].offset)
          IN  /\ l.compSize = BufLen(files[k].comp)
              /\ l.uncompSize = files[k].uncomp
    /\ result # <<>> =>
          /\ EocdOf(result).cdOffset = CentralStartOf(result)
          /\ \A k \in 1..EocdOf(result).count :
                CentralAt(result, CentralPos(result, k)).offset = files[k].offset


-----------------------------------------------------------------------------
(* Strings. *)

\* the strings ss[lo..hi] one after the other
RECURSIVE Concat(_, _, _)
Concat(ss, lo, hi) ==
    IF lo > hi THEN ""
    ELSE IF lo = hi THEN ss[lo]
    ELSE LET mid == (lo + hi) \div 2
         IN  Concat(ss, lo, mid) \o Concat(ss, mid + 1, hi)

\* Array.prototype.join
Join(ss, sep) ==
    Only({Concat([k \in 1..((2 * Len(v)) - 1) |->
                     IF k % 2 = 1 THEN v[(k + 1) \div 2] ELSE sep],
                 1, (2 * Len(v)) - 1) :
          v \in {ss \o <<>>}})

\* the lines of a template literal
Lines(ss) == Join(ss, "\n")

\* s with every character in the domain of f replaced by what f gives for it
Subst(s, f) ==
    Only({Concat([k \in 1..Len(v) |->
                     IF CharAt(v, k) \in DOMAIN g THEN g[CharAt(v, k)] ELSE CharAt(v, k)],
                 1, Len(v)) :
          v \in {s}, g \in {f}})

\* String.prototype.replace(/c/g, rep) for one character c
ReplaceAll(s, c, rep) == Subst(s, [x \in {c} |-> rep])

CharsOf(s) == Only({{CharAt(v, k) : k \in 1..Len(v)} : v \in {s}})

\* the least and the greatest number of a set of numbers
Least(S) == CHOOSE k \in S : \A j \in S : k <= j
Greatest(S) == CHOOSE k \in S : \A j \in S : j <= k

\* s without the characters of cs at its two ends
Strip(s, cs) ==
    Only({Only({IF keep = {} THEN "" ELSE SubSeq(v, Least(keep), Greatest(keep)) :
                keep \in {{k \in 1..Len(v) : CharAt(v, k) \notin cs}}}) :
          v \in {s}})

\* String.prototype.trim, for the white space of the model's alphabet
Trim(s) == Strip(s, {" ", "\n"})

\* String.prototype.toLowerCase
LowerOf ==
    [c \in CharsOf("ABCDEFGHIJKLMNOPQRSTUVWXYZ") |->
        CharAt("abcdefghijklmnopqrstuvwxyz",
               CHOOSE k \in 1..Len("ABCDEFGHIJKLMNOPQRSTUVWXYZ") :
                   CharAt("ABCDEFGHIJKLMNOPQRSTUVWXYZ", k) = c)]

ToLowerCase(s) == Subst(s, LowerOf)

\* the first position at or after from where pat occurs in s, 0 when none
IndexOf(s, pat, from) ==
    Only({Only({IF at = {} THEN 0 ELSE Least(at) :
                at \in {{k \in f..((Len(v) - Len(p)) + 1) :
                            SubSeq(v, k, (k + Len(p)) - 1) = p}}}) :
          v \in {s}, p \in {pat}, f \in {from}})

\* how many times pat occurs in s
Occurrences(s, pat) ==
    Only({Cardinality({k \in 1..((Len(v) - Len(p)) + 1) :
                          SubSeq(v, k, (k + Len(p)) - 1) = p}) :
          v \in {s}, p \in {pat}})

\* Buffer.prototype.toString('utf8'), for the bytes of the model's alphabet
Chr(b) ==
    IF b = 10 THEN "\n"
    ELSE IF b < 96 THEN CharAt(AsciiLow, b - 31)
    ELSE CharAt(AsciiHigh, b - 96)

BufferToString(buf) ==
    Only({Concat([k \in 1..Len(bs) |-> Chr(bs[k])], 1, Len(bs)) : bs \in {buf.bytes}})

-----------------------------------------------------------------------------
(* The helpers of the HTML -> EPUB node. *)

DEFAULT_CSS ==
    Lines(<<"",
            ".chapter-content table {",
            "  background: #004b7a;",
            "  margin: 10px auto;",
            "  width: 90%;",
            "  border: none;",
            "  box-shadow: 1px 1px 1px rgba(0,0,0,.75);",
            "  border-collapse: separate;",
            "  border-spacing: 2px;",
            "}",
            ".chapter-content table td {",
            "  color: #ccc;",
            "}",
            "">>)

\* Math.random: the values (Math.random() * 16) | 0 of successive calls
RandomStreams == <<[k \in 1..31 |-> 0], [k \in 1..31 |-> (7 * k) % 16]>>

\* rnd[k] is what the k-th call of Math.random gives
uuidv4(rnd) ==
    LET template == "xxxxxxxx-xxxx-4xxx-yxxx-xxxxxxxxxxxx"
        hex == "0123456789abcdef"
        nth(j) == Cardinality({k \in 1..j : CharAt(template, k) \in {"x", "y"}})
    IN  Concat([j \in 1..Len(template) |->
                   Only({IF c = "x" THEN CharAt(hex, r + 1)
                         ELSE IF c = "y" THEN CharAt(hex, ((r % 4) + 8) + 1)   \* (r & 0x3) | 0x8
                         ELSE c :
                         c \in {CharAt(template, j)},
                         r \in {rnd[nth(j)]}})],
               1, Len(template))

SlugChars == CharsOf("abcdefghijklmnopqrstuvwxyz0123456789")

slugify(str) ==
    Only({IF cut = "" THEN "chapter" ELSE cut :
          cut \in {SubSeq(stripped, 1, IF Len(stripped) < 60 THEN Len(stripped) ELSE 60) :
                   stripped \in {Strip(dashed, {"-"}) :
                       \* .replace(/[^a-z0-9]+/g, '-'): one '-' where a run of other
                       \* characters starts
                       dashed \in {Concat([k \in 1..Len(lower) |->
                                              IF CharAt(lower, k) \in SlugChars
                                              THEN CharAt(lower, k)
                                              ELSE IF k = 1 \/ CharAt(lower, k - 1) \in SlugChars
                                              THEN "-"
                                              ELSE ""],
                                          1, Len(lower)) :
                                   lower \in {ToLowerCase(str)}}}}})

escapeXml(unsafe) ==
    ReplaceAll(ReplaceAll(ReplaceAll(ReplaceAll(ReplaceAll(unsafe,
        "&", "&amp;"), "<", "&lt;"), ">", "&gt;"), "\"", "&quot;"), "'", "&apos;")

buildXhtml(title, bodyHtml) ==
    Lines(<<"<?xml version=\"1.0\" encoding=\"utf-8\"?>",
            "<!DOCTYPE html>",
            "<html xmlns=\"http://www.w3.org/1999/xhtml\">",
            "<head>",
            "  <meta http-equiv=\"Content-Type\" content=\"text/html; charset=utf-8\" />",
            "  <title>" \o escapeXml(title) \o "</title>",
            "  <link rel=\"stylesheet\" type=\"text/css\" href=\"style.css\" />",
            "</head>",
            "<body>",
            bodyHtml,
            "</body>",
            "</html>">>)

\* args.chapters is a sequence of [title, filename, xhtml]
makeOpf(args) ==
    LET manifestItems ==
            Join(<<"<item id=\"ncx\" href=\"toc.ncx\" media-type=\"application/x-dtbncx+xml\"/>",
                   "<item id=\"style\" href=\"style.css\" media-type=\"text/css\"/>">>
                 \o [k \in 1..Len(args.chapters) |->
                        "<item id=\"chapter-" \o ToString(k) \o "\" href=\""
                        \o args.chapters[k].filename
                        \o "\" media-type=\"application/xhtml+xml\"/>"],
                 "\n    ")
        spineItems ==
            Join([k \in 1..Len(args.chapters) |->
                     "<itemref idref=\"chapter-" \o ToString(k) \o "\" />"],
                 "\n    ")
    IN  Lines(<<"<?xml version=\"1.0\" encoding=\"utf-8\"?>",
                "<package xmlns=\"http://www.idpf.org/2007/opf\" unique-identifier=\"BookId\" version=\"2.0\">",
                "  <metadata xmlns:dc=\"http://purl.org/dc/elements/1.1/\" xmlns:opf=\"http://www.idpf.org/2007/opf\">",
                "    <dc:title>" \o escapeXml(args.title) \o "</dc:title>",
                "    <dc:creator opf:role=\"aut\">" \o escapeXml(args.author) \o "</dc:creator>",
                "    <dc:language>" \o escapeXml(args.language) \o "</dc:language>",
                "    <dc:identifier id=\"BookId\">urn:uuid:" \o args.uuid \o "</dc:identifier>",
                "  </metadata>",
                "  <manifest>",
                "    " \o manifestItems,
                "  </manifest>",
                "  <spine toc=\"ncx\">",
                "    " \o spineItems,
                "  </spine>",
                "</package>">>)

makeNcx(args) ==
    LET navPoints ==
            Join([k \in 1..Len(args.chapters) |->
                     Lines(<<"    <navPoint id=\"navPoint-" \o ToString(k)
                                 \o "\" playOrder=\"" \o ToString(k) \o "\">",
                             "      <navLabel><text>"
                                 \o escapeXml(IF args.chapters[k].title # ""
                                              THEN args.chapters[k].title
                                              ELSE "Chapter " \o ToString(k))
                                 \o "</text></navLabel>",
                             "      <content src=\"" \o args.chapters[k].filename \o "\" />",
                             "    </navPoint>">>)],
                 "\n")
    IN  Lines(<<"<?xml version=\"1.0\" encoding=\"utf-8\"?>",
                "<!DOCTYPE ncx PUBLIC \"-//NISO//DTD ncx 2005-1//EN\" \"http://www.daisy.org/z3986/2005/ncx-2005-1.dtd\">",
                "<ncx xmlns=\"http://www.daisy.org/z3986/2005/ncx/\" version=\"2005-1\">",
                "  <head>",
                "    <meta name=\"dtb:uid\" content=\"urn:uuid:" \o args.uuid \o "\"/>",
                "    <meta name=\"dtb:depth\" content=\"1\"/>",
                "    <meta name=\"dtb:totalPageCount\" content=\"0\"/>",
                "    <meta name=\"dtb:maxPageNumber\" content=\"0\"/>",
                "  </head>",
                "  <docTitle><text>" \o escapeXml(args.title) \o "</text></docTitle>",
                "  <docAuthor><text>" \o escapeXml(args.author) \o "</text></docAuthor>",
                "  <navMap>",
                navPoints,
                "  </navMap>",
                "</ncx>">>)

\* the containerXml of writeEpubBufferFromParts
containerXml ==
    Lines(<<"<?xml version=\"1.0\"?>",
            "<container version=\"1.0\" xmlns=\"urn:oasis:names:tc:opendocument:xmlns:container\">",
            "  <rootfiles>",
            "    <rootfile full-path=\"OEBPS/content.opf\" media-type=\"application/oebps-package+xml\"/>",
            "  </rootfiles>",
            "</container>">>)

-----------------------------------------------------------------------------
(* cheerio's load, for the markup of the model: start tags with            *)
(* double-quoted attributes, end tags, text without character references,  *)
(* and the elements h1..h6, p, div, span and style.  A document is the     *)
(* sequence of its nodes in document order; node 1 is the document's root  *)
(* (it stands for html, head and body), a node names its parent.           *)

Headings == {"h1", "h2", "h3", "h4", "h5", "h6"}

\* the start tags that close an open p element
ClosesP == Headings \cup {"p", "div"}

\* the elements an unmatched end tag does not reach past
SpecialTags == Headings \cup {"p", "div", "style"}

\* the attributes written in r, a sequence of <<name, value>>
RECURSIVE ParseAttrs(_)
ParseAttrs(r) ==
    Only({Only({Only({
        IF t = "" \/ eq = 0 \/ close = 0 THEN <<>>
        ELSE <<<<SubSeq(t, 1, eq - 1), SubSeq(t, eq + 2, close - 1)>>>>
             \o ParseAttrs(SubSeq(t, close + 1, Len(t))) :
        close \in {IndexOf(t, "\"", eq + 2)}}) :
        eq \in {IndexOf(t, "=\"", 1)}}) :
        t \in {Trim(r)}})

\* the start tag written as inner, the text between < and >
StartTag(inner) ==
    Only({[t |-> "start",
           tag |-> IF sp = 0 THEN inner ELSE SubSeq(inner, 1, sp - 1),
           attrs |-> IF sp = 0 THEN <<>> ELSE ParseAttrs(SubSeq(inner, sp, Len(inner)))] :
          sp \in {IndexOf(inner, " ", 1)}})

\* the token of the tag written as inner, the text between < and >
TagToken(inner) ==
    IF CharAt(inner, 1) = "/"
    THEN [t |-> "end", tag |-> SubSeq(inner, 2, Len(inner))]
    ELSE StartTag(inner)

\* The tokenizer reads the markup one character at a time.  st is
\* [mode, buf, toks]: mode "data" in text, "tag" between < and >, "rawtext"
\* in the content of a style element; buf the characters read since the last
\* token; toks the tokens so far.
TokenStep(st, c) ==
    IF st.mode = "data"
    THEN IF c = "<"
         THEN [mode |-> "tag", buf |-> "",
               toks |-> IF st.buf = "" THEN st.toks
                        ELSE Append(st.toks, [t |-> "text", text |-> st.buf])]
         ELSE [st EXCEPT !.buf = @ \o c]
    ELSE IF st.mode = "tag"
    THEN IF c = ">"
         THEN Only({[mode |-> IF tok.t = "start" /\ tok.tag = "style"
                              THEN "rawtext" ELSE "data",
                     buf |-> "", toks |-> Append(st.toks, tok)] :
                    tok \in {TagToken(st.buf)}})
         ELSE [st EXCEPT !.buf = @ \o c]
    \* the content of style is raw text, up to its end tag
    ELSE Only({IF Len(buf) >= 8 /\ SubSeq(buf, Len(buf) - 7, Len(buf)) = "</style>"
               THEN [mode |-> "data", buf |-> "",
                     toks |-> (IF Len(buf) = 8 THEN st.toks
                               ELSE Append(st.toks, [t |-> "text",
                                                     text |-> SubSeq(buf, 1, Len(buf) - 8)]))
                              \o <<[t |-> "end", tag |-> "style"]>>]
               ELSE [st EXCEPT !.buf = buf] :
               buf \in {st.buf \o c}})

\* TokenStep over the characters s[lo..hi], in that order
RECURSIVE TokenLoop(_, _, _, _)
TokenLoop(st, s, lo, hi) ==
    IF lo > hi THEN st
    ELSE IF lo = hi THEN TokenStep(st, CharAt(s, lo))
    ELSE Only({TokenLoop(st1, s, ((lo + hi) \div 2) + 1, hi) :
               st1 \in {TokenLoop(st, s, lo, (lo + hi) \div 2)}})

\* the tokens of s; at the end of s the text read so far is a token, an
\* unfinished tag is none
Tokenize(s) ==
    Only({IF st.mode # "tag" /\ st.buf # ""
          THEN Append(st.toks, [t |-> "text", text |-> st.buf])
          ELSE st.toks :
          st \in {TokenLoop([mode |-> "data", buf |-> "", toks |-> <<>>], v, 1, Len(v)) :
                  v \in {s}}})

RootNode == [kind |-> "root", tag |-> "", attrs |-> <<>>, text |-> "", parent |-> 0]

\* the stack open, popped until an element with a tag of tags has been popped
RECURSIVE PopUntil(_, _, _)
PopUntil(nodes, open, tags) ==
    IF Len(open) = 1 THEN open
    ELSE IF nodes[open[Len(open)]].tag \in tags THEN SubSeq(open, 1, Len(open) - 1)
    ELSE Only({PopUntil(nodes, rest, tags) : rest \in {SubSeq(open, 1, Len(open) - 1)}})

OnStack(nodes, open, tags) == \E k \in 2..Len(open) : nodes[open[k]].tag \in tags

\* an end tag that is none of p, div, h1..h6: it closes the nearest open
\* element of its name, unless a special element is open above that one
Reaches(nodes, open, tag) ==
    \E k \in 2..Len(open) :
        /\ nodes[open[k]].tag = tag
        /\ \A j \in (k + 1)..Len(open) : nodes[open[j]].tag \notin SpecialTags

\* the tree construction step for one token; st is [nodes, open], open the
\* stack of open elements with the current node last
TreeStep(st, tok) ==
    LET cur == st.open[Len(st.open)]
    IN  IF tok.t = "text"
        THEN [st EXCEPT !.nodes = Append(@, [kind |-> "text", tag |-> "", attrs |-> <<>>,
                                             text |-> tok.text, parent |-> cur])]
        ELSE IF tok.t = "start"
        THEN Only({[nodes |-> Append(st.nodes, [kind |-> "el", tag |-> tok.tag,
                                                attrs |-> tok.attrs, text |-> "",
                                                parent |-> o2[Len(o2)]]),
                    open |-> Append(o2, Len(st.nodes) + 1)] :
                   \* a heading start tag closes the heading that is the current node
                   o2 \in {IF tok.tag \in Headings /\ st.nodes[o1[Len(o1)]].tag \in Headings
                           THEN SubSeq(o1, 1, Len(o1) - 1) ELSE o1 :
                           o1 \in {IF tok.tag \in ClosesP /\ OnStack(st.nodes, st.open, {"p"})
                                   THEN PopUntil(st.nodes, st.open, {"p"})
                                   ELSE st.open}}})
        ELSE IF tok.tag = "p"
        THEN IF OnStack(st.nodes, st.open, {"p"})
             THEN [st EXCEPT !.open = PopUntil(st.nodes, st.open, {"p"})]
             \* an end tag of p with no p open makes an empty p element
             ELSE [st EXCEPT !.nodes = Append(@, [kind |-> "el", tag |-> "p", attrs |-> <<>>,
                                                  text |-> "", parent |-> cur])]
        ELSE IF tok.tag \in Headings
        THEN IF OnStack(st.nodes, st.open, Headings)
             THEN [st EXCEPT !.open = PopUntil(st.nodes, st.open, Headings)]
             ELSE st
        ELSE IF tok.tag = "div"
        THEN IF OnStack(st.nodes, st.open, {"div"})
             THEN [st EXCEPT !.open = PopUntil(st.nodes, st.open, {"div"})]
             ELSE st
        ELSE IF Reaches(st.nodes, st.open, tok.tag)
             THEN [st EXCEPT !.open = PopUntil(st.nodes, st.open, {tok.tag})]
             ELSE st

\* TreeStep over the tokens toks[lo..hi], in that order
RECURSIVE TreeLoop(_, _, _, _)
TreeLoop(st, toks, lo, hi) ==
    IF lo > hi THEN st
    ELSE IF lo = hi THEN TreeStep(st, toks[lo])
    ELSE Only({TreeLoop(st1, toks, ((lo + hi) \div 2) + 1, hi) :
               st1 \in {TreeLoop(st, toks, lo, (lo + hi) \div 2)}})

\* load(html): the nodes of the document
loadHtml(html) ==
    Only({TreeLoop([nodes |-> <<RootNode>>, open |-> <<1>>], toks, 1, Len(toks)).nodes :
          toks \in {Tokenize(html)}})

\* the value of the attribute name of node n, "" when it has none
Attr(n, name) ==
    Only({IF at = {} THEN "" ELSE n.attrs[Least(at)][2] :
          at \in {{k \in 1..Len(n.attrs) : n.attrs[k][1] = name}}})

\* the selector tag.class
Matches(n, tag, class) ==
    /\ n.kind = "el"
    /\ n.tag = tag
    /\ IndexOf(" " \o ReplaceAll(Attr(n, "class"), "\n", " ") \o " ",
               " " \o class \o " ", 1) # 0

\* the numbers of S in increasing order
Ordered(doc, S) ==
    Only({SelectSeq([k \in 1..Len(doc) |-> k], LAMBDA k : k \in T) : T \in {S}})

\* $(selector): the matching elements in document order
Select(doc, tag, class) == Ordered(doc, {k \in 1..Len(doc) : Matches(doc[k], tag, class)})

\* $('style')
SelectTag(doc, tag) ==
    Ordered(doc, {k \in 1..Len(doc) : doc[k].kind = "el" /\ doc[k].tag = tag})

ChildrenOf(doc, n) == Ordered(doc, {k \in 1..Len(doc) : doc[k].parent = n})

RECURSIVE IsInside(_, _, _)
IsInside(doc, k, n) ==
    doc[k].parent # 0 /\ (doc[k].parent = n \/ IsInside(doc, doc[k].parent, n))

\* $(el).text()
TextOf(doc, n) ==
    Only({Concat([k \in 1..Len(ts) |-> doc[ts[k]].text], 1, Len(ts)) :
          ts \in {Ordered(doc, {k \in 1..Len(doc) :
                                   doc[k].kind = "text" /\ IsInside(doc, k, n)})}})

\* the serialization of the attributes of an element
AttrsHtml(n) ==
    Concat([k \in 1..Len(n.attrs) |->
               " " \o n.attrs[k][1] \o "=\""
               \o ReplaceAll(ReplaceAll(n.attrs[k][2], "&", "&amp;"), "\"", "&quot;")
               \o "\""],
           1, Len(n.attrs))

\* $.html(el): the element with its content; the text of a style element is
\* written as it is, other text with & < > escaped
RECURSIVE OuterHtml(_, _)
OuterHtml(doc, n) ==
    IF doc[n].kind = "text"
    THEN IF doc[doc[n].parent].tag = "style" THEN doc[n].text
         ELSE ReplaceAll(ReplaceAll(ReplaceAll(doc[n].text,
                  "&", "&amp;"), "<", "&lt;"), ">", "&gt;")
    ELSE Only({"<" \o doc[n].tag \o AttrsHtml(doc[n]) \o ">"
               \o Concat([k \in 1..Len(cs) |-> OuterHtml(doc, cs[k])], 1, Len(cs))
               \o "</" \o doc[n].tag \o ">" :
               cs \in {ChildrenOf(doc, n)}})

\* $(el).html(): the content of the element
InnerHtml(doc, n) ==
    Only({Concat([k \in 1..Len(cs) |-> OuterHtml(doc, cs[k])], 1, Len(cs)) :
          cs \in {ChildrenOf(doc, n)}})

\* $(el).nextAll(), the element siblings after el
nextAll(doc, n) ==
    Ordered(doc, {k \in (n + 1)..Len(doc) : doc[k].kind = "el" /\ doc[k].parent = doc[n].parent})

\* $(el).nextUntil('h1.chapter'): the element siblings after el, up to the
\* first of them that matches
nextUntil(doc, n, tag, class) ==
    Only({Only({IF stop = {} THEN sibs ELSE SubSeq(sibs, 1, Least(stop) - 1) :
                stop \in {{k \in 1..Len(sibs) : Matches(doc[sibs[k]], tag, class)}}}) :
          sibs \in {nextAll(doc, n)}})

\* the chapter that extractChaptersAndCss pushes for the i-th h1.chapter
\* element el (i from 0), with the siblings sibs as its body
chapterOf(doc, el, i, sibs) ==
    Only({[title |-> IF text # "" THEN text ELSE "Chapter " \o ToString(i + 1),
           html |-> OuterHtml(doc, el) \o "\n"
                    \o Concat([j \in 1..Len(sibs) |-> OuterHtml(doc, sibs[j])],
                              1, Len(sibs))] :
          text \in {Trim(TextOf(doc, el))}})

\* extractChapters with every following sibling taken into the body
extractChaptersNextAll(html) ==
    Only({Only({[k \in 1..Len(hs) |->
                    Only({chapterOf(D, hs[k], k - 1, sibs) :
                          sibs \in {nextAll(D, hs[k])}})] \o <<>> :
                hs \in {Select(D, "h1", "chapter")}}) :
          D \in {loadHtml("<div id=\"root\">" \o html \o "</div>")}})

\* the fallback of extractChaptersAndCss, with another title
fallbackChapterRenamed(html) == <<[title |-> "Chapter 0", html |-> html]>>

\* the chapter extractChaptersAndCss makes up when it found none
fallbackChapter(html) == <<[title |-> "Chapter 1", html |-> html]>>

\* the chapters extractChaptersAndCss finds at the h1.chapter elements
extractChapters(html) ==
    Only({Only({[k \in 1..Len(hs) |->
                    Only({chapterOf(D, hs[k], k - 1, sibs) :
                          sibs \in {nextUntil(D, hs[k], "h1", "chapter")}})] \o <<>> :
                hs \in {Select(D, "h1", "chapter")}}) :
          D \in {loadHtml("<div id=\"root\">" \o html \o "</div>")}})

\* the style sheets extractChaptersAndCss collects, each with a line feed
collectCss(html) ==
    Only({Only({Concat([k \in 1..Len(styles) |->
                           Only({IF css # "" THEN css \o "\n" ELSE "" :
                                 css \in {InnerHtml(probe, styles[k])}})],
                       1, Len(styles)) :
                styles \in {SelectTag(probe, "style")}}) :
          probe \in {loadHtml(html)}})

extractChaptersAndCss(html) ==
    Only({Only({[chapters |-> IF Len(found) = 0 THEN fallbackChapter(h) ELSE found,
                 css |-> Trim(IF cssCollected # "" THEN cssCollected ELSE DEFAULT_CSS)] :
                found \in {extractChapters(h)},
                cssCollected \in {collectCss(h)}}) :
          h \in {html}})

-----------------------------------------------------------------------------
(* writeEpubBufferFromParts.  An undefined string option is "".  The calls *)
(* of zip.addFile are listed by zipEntries; execute makes them one by one, *)
(* each reading the clock when it is made.                                 *)

\* zipEntries with the mimetype entry added like the others, deflated
zipEntriesAllDeflated(css, opf, ncx, chapterFiles) ==
    <<[name |-> "mimetype", data |-> "application/epub+zip", opts |-> NoOpts],
      [name |-> "META-INF/container.xml", data |-> containerXml, opts |-> NoOpts],
      [name |-> "OEBPS/style.css", data |-> css, opts |-> NoOpts],
      [name |-> "OEBPS/content.opf", data |-> opf, opts |-> NoOpts],
      [name |-> "OEBPS/toc.ncx", data |-> ncx, opts |-> NoOpts]>>
    \o [k \in 1..Len(chapterFiles) |->
           [name |-> "OEBPS/" \o chapterFiles[k].filename,
            data |-> chapterFiles[k].xhtml, opts |-> NoOpts]]

\* the arguments of the calls of zip.addFile, in the order of the calls
zipEntries(css, opf, ncx, chapterFiles) ==
    <<[name |-> "mimetype", data |-> "application/epub+zip",
       opts |-> [compress |-> FALSE]],
      [name |-> "META-INF/container.xml", data |-> containerXml, opts |-> NoOpts],
      [name |-> "OEBPS/style.css", data |-> css, opts |-> NoOpts],
      [name |-> "OEBPS/content.opf", data |-> opf, opts |-> NoOpts],
      [name |-> "OEBPS/toc.ncx", data |-> ncx, opts |-> NoOpts]>>
    \o [k \in 1..Len(chapterFiles) |->
           [name |-> "OEBPS/" \o chapterFiles[k].filename,
            data |-> chapterFiles[k].xhtml, opts |-> NoOpts]]

\* chapterFiles with the file named after the slug alone
chapterFilesNoOrdinal(chaptersIn) ==
    [k \in 1..Len(chaptersIn) |->
        [title |-> chaptersIn[k].title,
         filename |-> "chapter-" \o slugify(chaptersIn[k].title) \o ".xhtml",
         xhtml |-> buildXhtml(chaptersIn[k].title, chaptersIn[k].html)]] \o <<>>

\* the chapterFiles of writeEpubBufferFromParts
chapterFilesOf(chaptersIn) ==
    [k \in 1..Len(chaptersIn) |->
        [title |-> chaptersIn[k].title,
         filename |-> "chapter-" \o ToString(k) \o "-"
                      \o slugify(chaptersIn[k].title) \o ".xhtml",
         xhtml |-> buildXhtml(chaptersIn[k].title, chaptersIn[k].html)]] \o <<>>

\* the locals of writeEpubBufferFromParts before its first call of addFile
writeEpubBufferFromParts(chaptersIn, css, opts, rnd) ==
    LET language == IF opts.language # "" THEN opts.language ELSE "en"
        author == IF opts.author # "" THEN opts.author ELSE "Unknown"
        inferredTitle ==
            IF opts.title # "" THEN opts.title
            ELSE IF Len(chaptersIn) > 0 /\ chaptersIn[1].title # "" THEN chaptersIn[1].title
            ELSE "Book"
    IN  Only({Only({[uuid |-> uuid, title |-> inferredTitle,
                     chapterCount |-> Len(chaptersIn),
                     chapterFiles |-> chapterFiles, opf |-> opf, ncx |-> ncx,
                     entries |-> zipEntries(css, opf, ncx, chapterFiles)] :
                    opf \in {makeOpf([uuid |-> uuid, title |-> inferredTitle,
                                      author |-> author, language |-> language,
                                      chapters |-> chapterFiles])},
                    ncx \in {makeNcx([uuid |-> uuid, title |-> inferredTitle,
                                      author |-> author, chapters |-> chapterFiles])}}) :
              uuid \in {uuidv4(rnd)},
              chapterFiles \in {chapterFilesOf(chaptersIn)}})

-----------------------------------------------------------------------------
(* HtmlToEpubNode.execute.  An item is [json, binary]; a JSON value is     *)
(* [str |-> s] or [num |-> n], a binary property is the Buffer that        *)
(* getBinaryDataBuffer gives for it.  The property names are the node's    *)
(* defaults: 'data' for both binary properties, 'book' for the JSON key.   *)

DocTwo == "<h1 class=\"chapter\">Intro</h1><p>Hello</p><h1 class=\"chapter\">End</h1><p>Bye</p>"
DocPlain == "<p>Hello</p>"
DocNested ==
    "<style>p{a>b}</style><div><h1 class=\"x chapter\"> A & <span>b</span> </h1>t<p>u<p>v</p>"
    \o "<h1>B</h1></div><h1 class=\"chapter\"></h1>w"
DocOpen == "<h1 class=\"chapter\">A<h1 class=\"chapter\">B</h1><p>c"

NoFields == [k \in {} |-> TRUE]

BinaryItem(html) == [json |-> NoFields, binary |-> [data |-> Utf8(html)]]
StringItem(html) == [json |-> [book |-> [str |-> html]], binary |-> NoFields]

Defaults ==
    [inputMode |-> "binary", fileName |-> "book.epub", title |-> "", author |-> "Unknown",
     language |-> "en", continueOnFail |-> FALSE]

\* the calls of execute that the model makes
Scenarios ==
    <<[items |-> <<BinaryItem(DocTwo), BinaryItem(DocTwo)>>, settings |-> Defaults],
      [items |-> <<StringItem(DocNested)>>,
       settings |-> [Defaults EXCEPT !.inputMode = "string", !.title = "T<1>",
                                     !.author = "", !.language = "fr"]],
      [items |-> <<BinaryItem("")>>, settings |-> Defaults],
      [items |-> <<StringItem(""), StringItem(DocPlain)>>,
       settings |-> [Defaults EXCEPT !.inputMode = "string", !.continueOnFail = TRUE]],
      [items |-> <<[json |-> [book |-> [num |-> 5]], binary |-> NoFields]>>,
       settings |-> [Defaults EXCEPT !.inputMode = "string"]],
      [items |-> <<[json |-> NoFields, binary |-> NoFields], BinaryItem(DocOpen)>>,
       settings |-> [Defaults EXCEPT !.continueOnFail = TRUE]]>>

InitEpub ==
    /\ files = <<>>
    /\ chunks = <<>>
    /\ offset = <<0, 0>>
    /\ result = <<>>
    /\ built = 0
    /\ err = ""
    /\ now = Clock0
    /\ \E sc \in 1..Len(Scenarios) :
          /\ items = Scenarios[sc].items
          /\ inputItems = Scenarios[sc].items
          /\ settings = Scenarios[sc].settings
    /\ itemIndex = 0
    /\ pc = "loop"
    /\ epub = <<>>
    /\ thrown = ""
    /\ FetchIdle

\* the catch block of execute, for the error named msg
Catch(msg) ==
    IF settings.continueOnFail
    THEN /\ items' = [items EXCEPT ![itemIndex + 1] =
                         [json |-> items[itemIndex + 1].json, error |-> msg,
                          pairedItem |-> itemIndex]]
         /\ itemIndex' = itemIndex + 1
         /\ pc' = "loop"
         /\ thrown' = thrown
    ELSE /\ items' = items
         /\ itemIndex' = itemIndex
         /\ pc' = "thrown"
         /\ thrown' = msg

\* the HTML of the item, or the error that reading it raises
ReadHtml(item) ==
    IF settings.inputMode = "binary"
    THEN IF "data" \in DOMAIN item.binary
         THEN [err |-> "", html |-> BufferToString(item.binary.data)]
         ELSE [err |-> "no binary data", html |-> ""]
    ELSE IF /\ "book" \in DOMAIN item.json
            /\ "str" \in DOMAIN item.json.book
            /\ item.json.book.str # ""
         THEN [err |-> "", html |-> item.json.book.str]
         ELSE [err |-> "must contain a non-empty HTML string", html |-> ""]

\* an iteration of the loop, up to new ZipBuilder()
Begin ==
    /\ pc = "loop"
    /\ itemIndex < Len(items)
    /\ \E read \in {ReadHtml(items[itemIndex + 1])} :
           IF read.err # ""
           THEN /\ Catch(read.err)
                /\ UNCHANGED <<zipVars, inputItems, settings, epub>>
           ELSE /\ \E parts \in {extractChaptersAndCss(read.html)} :
                   \E r \in 1..Len(RandomStreams) :
                      epub' = [item |-> itemIndex + 1, html |-> read.html,
                               chapters |-> parts.chapters, css |-> parts.css]
                              @@ writeEpubBufferFromParts(parts.chapters, parts.css,
                                     [title |-> settings.title,
                                      author |-> settings.author,
                                      language |-> settings.language],
                                     RandomStreams[r])
                /\ files' = <<>>
                /\ chunks' = <<>>
                /\ offset' = <<0, 0>>
                /\ built' = 0
                /\ err' = ""
                /\ pc' = "zip"
                /\ UNCHANGED <<result, now, items, inputItems, settings, itemIndex, thrown>>
    /\ UNCHANGED fetchVars

\* the next call of zip.addFile
ZipAdd ==
    /\ pc = "zip"
    /\ Len(files) < Len(epub.entries)
    /\ \E e \in {epub.entries[Len(files) + 1]} :
       \E r \in {addFile([files |-> files, chunks |-> chunks, offset |-> offset],
                         e.name, [str |-> e.data], e.opts, now)} :
           /\ files' = r.zb.files
           /\ chunks' = r.zb.chunks
           /\ offset' = r.zb.offset
           /\ err' = r.err
           /\ IF r.err # "" THEN Catch(r.err)
              ELSE UNCHANGED <<items, itemIndex, pc, thrown>>
    /\ UNCHANGED <<result, built, now, inputItems, settings, epub>>
    /\ UNCHANGED fetchVars

\* zip.build() and the rest of the iteration
Finish ==
    /\ pc = "zip"
    /\ Len(files) = Len(epub.entries)
    /\ \E r \in {build([files |-> files, chunks |-> chunks, offset |-> offset])},
          item \in {items[itemIndex + 1]} :
           /\ files' = r.zb.files
           /\ chunks' = r.zb.chunks
           /\ offset' = r.zb.offset
           /\ err' = r.err
           /\ result' = r.buffer
           /\ built' = built + 1
           /\ IF r.err # "" THEN Catch(r.err)
              ELSE /\ items' = [items EXCEPT ![itemIndex + 1] =
                          [json |-> [meta |-> [uuid |-> epub.uuid, title |-> epub.title,
                                               author |-> settings.author,
                                               language |-> settings.language,
                                               chapters |-> epub.chapterCount]]
                                    @@ item.json,
                           binary |-> [data |-> [data |-> r.buffer,
                                                 fileName |-> settings.fileName,
                                                 mimeType |-> "application/epub+zip"]]
                                      @@ item.binary]]
                   /\ itemIndex' = itemIndex + 1
                   /\ pc' = "loop"
                   /\ thrown' = thrown
    /\ UNCHANGED <<now, inputItems, settings, epub>>
    /\ UNCHANGED fetchVars

\* return [items]
Return ==
    /\ pc = "loop"
    /\ itemIndex = Len(items)
    /\ pc' = "returned"
    /\ UNCHANGED <<zipVars, items, inputItems, settings, itemIndex, epub, thrown>>
    /\ UNCHANGED fetchVars

\* a second passes while execute runs
Tick ==
    /\ pc \in {"loop", "zip"}
    /\ Elapsed(now) < MaxTicks
    /\ now' = NextSecond(now)
    /\ UNCHANGED <<files, chunks, offset, result, built, err>>
    /\ UNCHANGED <<epubVars, fetchVars>>

NextEpub == Begin \/ ZipAdd \/ Finish \/ Return \/ Tick

SpecEpub == InitEpub /\ [][NextEpub]_vars

-----------------------------------------------------------------------------
(* What a reader finds in the archive of an item that execute converted.   *)

\* execute wrote an EPUB into the binary property 'data' of items[k]
Produced(k) ==
    /\ "error" \notin DOMAIN items[k]
    /\ "data" \in DOMAIN items[k].binary
    /\ "mimeType" \in DOMAIN items[k].binary.data

ArchiveOf(k) == items[k].binary.data.data

\* the k-th record of the central directory
EntryOf(arch, k) == CentralAt(arch, CentralPos(arch, k))

EntryName(arch, k) == BufferToString(Bytes(EntryOf(arch, k).name))

\* the bytes stored for the k-th entry (archives below 2^16 bytes)
PayloadOf(arch, k) ==
    LET c == EntryOf(arch, k)
    IN  ReadBytes(arch, At(c.offset, 30 + Len(c.name)), c.compSize[2])

\* what a raw INFLATE gives for a payload that is one stored block
inflateRaw(bytes) == SubSeq(bytes, 6, Len(bytes))

\* the iteration for items[itemIndex] has ended with an EPUB
Converted ==
    /\ pc \in {"loop", "returned"}
    /\ itemIndex >= 1
    /\ Produced(itemIndex)
    /\ epub # <<>>
    /\ epub.item = itemIndex

-----------------------------------------------------------------------------
(* Claims about the conversion, checked under SpecEpub.                    *)

MimeType == Utf8("application/epub+zip").bytes

\* the first entry of arch is named mimetype, is stored, lies at offset 0,
\* and its payload is the n bytes of application/epub+zip, directly followed
\* by the next local header
MimetypeFirst(arch, n) ==
    LET c == EntryOf(arch, 1)
        l == LocalAt(arch, <<0, 0>>)
    IN  /\ l.sig = LOCAL_SIG
        /\ l.name = Utf8("mimetype").bytes
        /\ c.name = l.name
        /\ c.offset = <<0, 0>>
        /\ l.method = 0
        /\ c.method = 0
        /\ l.compSize = Num(n)
        /\ l.uncompSize = Num(n)
        /\ c.compSize = Num(n)
        /\ c.uncompSize = Num(n)
        /\ ReadBytes(arch, Num(30 + Len(l.name)), n) = MimeType
        /\ U32In(ReadBytes(arch, Num(30 + Len(l.name) + n), 4), 0) = LOCAL_SIG

\* C5 (as stated): the first entry of every archive is mimetype, stored, at
\* offset 0, with the 21 bytes of application/epub+zip as its payload.
C5_Mimetype21Bytes ==
    \A k \in 1..Len(items) : Produced(k) => MimetypeFirst(ArchiveOf(k), 21)

\* C5 (amended): the first entry of every archive is mimetype, stored, at
\* offset 0, and its payload is exactly the 20 ASCII bytes of
\* application/epub+zip, so both its sizes are 20.
C5_MimetypeFirstStored ==
    \A k \in 1..Len(items) : Produced(k) => MimetypeFirst(ArchiveOf(k), Len(MimeType))

\* an archive of an input with chapters has been produced
C5_Witness ==
    /\ Converted
    /\ Len(epub.chapters) = 2
    /\ Len(MimeType) = 20
    /\ EocdOf(ArchiveOf(itemIndex)).count = 7

\* C6: two conversions of identical input give archives in which every
\* entry has the same name, method, DOS time and date, sizes and offset
\* (and the same crc, but for the two documents that hold the identifier).
C6_RunsAgree ==
    \A j \in 1..Len(items), k \in 1..Len(items) :
        (j < k /\ inputItems[j] = inputItems[k] /\ Produced(j) /\ Produced(k)) =>
            /\ EocdOf(ArchiveOf(j)).count = EocdOf(ArchiveOf(k)).count
            /\ \A e \in 1..EocdOf(ArchiveOf(j)).count :
                  LET a == EntryOf(ArchiveOf(j), e)
                      b == EntryOf(ArchiveOf(k), e)
                  IN  /\ a.name = b.name
                      /\ a.method = b.method
                      /\ a.time = b.time
                      /\ a.date = b.date
                      /\ a.compSize = b.compSize
                      /\ a.uncompSize = b.uncompSize
                      /\ a.offset = b.offset
                      /\ (e \notin {4, 5} => a.crc = b.crc)

\* the h1.chapter elements of a document
ChapterHeads(D) == {h \in 1..Len(D) : Matches(D[h], "h1", "chapter")}

\* the k-th number of S, counted from the least
NthOf(S, k) == CHOOSE h \in S : Cardinality({g \in S : g <= h}) = k

\* the element siblings after h that come before the next h1.chapter sibling
BodyOf(D, h) ==
    {m \in (h + 1)..Len(D) :
        /\ D[m].kind = "el"
        /\ D[m].parent = D[h].parent
        /\ \A b \in ChapterHeads(D) :
              ~(h < b /\ b <= m /\ D[b].parent = D[h].parent)}

\* chapters are the n h1.chapter elements of D in document order, each with
\* its element siblings up to the next h1.chapter
SplitAtHeads(D, chapters) ==
    LET Hs == ChapterHeads(D)
    IN  /\ Len(chapters) = Cardinality(Hs)
        /\ \A k \in 1..Len(chapters) :
              LET h == NthOf(Hs, k)
                  B == Ordered(D, BodyOf(D, h))
              IN  chapters[k].html =
                      OuterHtml(D, h) \o "\n"
                      \o Concat([j \in 1..Len(B) |-> OuterHtml(D, B[j])], 1, Len(B))

ItemTag(k, f) ==
    "<item id=\"chapter-" \o ToString(k) \o "\" href=\"" \o f
    \o "\" media-type=\"application/xhtml+xml\"/>"
ItemRefTag(k) == "<itemref idref=\"chapter-" \o ToString(k) \o "\" />"
NavPointTag(k) ==
    "<navPoint id=\"navPoint-" \o ToString(k) \o "\" playOrder=\"" \o ToString(k) \o "\">"
ContentTag(f) == "<content src=\"" \o f \o "\" />"

\* the archive has one entry OEBPS/<filename> per chapter after its five
\* fixed entries, and its content.opf and toc.ncx list exactly these n
\* chapters, in that order, as chapter-1..chapter-n and playOrder 1..n
ListsChapters(arch, n) ==
    LET opf == BufferToString(Bytes(inflateRaw(PayloadOf(arch, 4))))
        ncx == BufferToString(Bytes(inflateRaw(PayloadOf(arch, 5))))
        file == [k \in 1..n |-> SubSeq(EntryName(arch, 5 + k), 7,
                                       Len(EntryName(arch, 5 + k)))]
        item == [k \in 1..n |-> IndexOf(opf, ItemTag(k, file[k]), 1)]
        ref == [k \in 1..n |-> IndexOf(opf, ItemRefTag(k), 1)]
        nav == [k \in 1..n |-> IndexOf(ncx, NavPointTag(k), 1)]
        src == [k \in 1..n |-> IndexOf(ncx, ContentTag(file[k]), nav[k])]
    IN  /\ EocdOf(arch).count = 5 + n
        /\ EntryName(arch, 4) = "OEBPS/content.opf"
        /\ EntryName(arch, 5) = "OEBPS/toc.ncx"
        /\ Occurrences(opf, "<item id=\"chapter-") = n
        /\ Occurrences(opf, "<itemref ") = n
        /\ Occurrences(ncx, "<navPoint ") = n
        /\ Occurrences(ncx, "<content ") = n
        /\ \A k \in 1..n :
              /\ SubSeq(EntryName(arch, 5 + k), 1, 6) = "OEBPS/"
              /\ IndexOf(file[k], "chapter-" \o ToString(k) \o "-", 1) = 1
              /\ item[k] # 0
              /\ ref[k] # 0
              /\ nav[k] # 0
              /\ src[k] # 0
              /\ item[k] < ref[k]
        /\ \A k \in 1..(n - 1) :
              /\ item[k] < item[k + 1]
              /\ ref[k] < ref[k + 1]
              /\ src[k] < nav[k + 1]

SuppliesNoHtml(item) ==
    IF settings.inputMode = "binary"
    THEN \/ "data" \notin DOMAIN item.binary
         \/ BufLen(item.binary.data) = <<0, 0>>
    ELSE \/ "book" \notin DOMAIN item.json
         \/ "str" \notin DOMAIN item.json.book
         \/ item.json.book.str = ""

\* C9: an item that supplies no HTML, in binary or in string mode, gets no
\* archive and no fallback chapter: its conversion ends with an error.
C9_NoHtmlNoArchive ==
    \A k \in 1..Len(items) :
        SuppliesNoHtml(inputItems[k]) =>
            /\ ~Produced(k)
            /\ ~(pc = "zip" /\ epub # <<>> /\ epub.item = k)

\* the HTML that the item supplies, when it supplies one
SuppliedHtml(item) ==
    IF settings.inputMode = "binary"
    THEN BufferToString(item.binary.data)
    ELSE item.json.book.str

\* the item supplies a non-empty document without any h1.chapter element
NoMarker(item) ==
    /\ ~SuppliesNoHtml(item)
    /\ ChapterHeads(loadHtml("<div id=\"root\">" \o SuppliedHtml(item) \o "</div>")) = {}

\* C10: a non-empty input without chapter heading is converted without
\* error into exactly one chapter, titled Chapter 1, whose content is the
\* whole input unchanged, and its archive has exactly one chapter entry.
C10_WholeInputIsChapterOne ==
    /\ (pc = "thrown" => ~NoMarker(inputItems[itemIndex + 1]))
    /\ \A k \in 1..Len(items) :
          (k <= itemIndex /\ NoMarker(inputItems[k])) => Produced(k)
    /\ (Converted /\ NoMarker(inputItems[itemIndex])) =>
          /\ epub.chapters = <<[title |-> "Chapter 1", html |-> SuppliedHtml(inputItems[itemIndex])]>>
          /\ EocdOf(ArchiveOf(itemIndex)).count = 6
          /\ EntryName(ArchiveOf(itemIndex), 6) = "OEBPS/chapter-1-chapter-1.xhtml"
          /\ IndexOf(BufferToString(Bytes(inflateRaw(PayloadOf(ArchiveOf(itemIndex), 6)))),
                     "<title>Chapter 1</title>", 1) # 0
          /\ IndexOf(BufferToString(Bytes(inflateRaw(PayloadOf(ArchiveOf(itemIndex), 6)))),
                     "<body>\n" \o SuppliedHtml(inputItems[itemIndex]) \o "\n</body>", 1) # 0

\* an input without chapter heading has been converted
C10_Witness ==
    /\ Converted
    /\ NoMarker(inputItems[itemIndex])
    /\ SuppliedHtml(inputItems[itemIndex]) = DocPlain
    /\ Len(epub.chapters) = 1

-----------------------------------------------------------------------------
(* fetchBook of the RoyalRoad node.  The server is the environment: every  *)
(* request is answered with one of Statuses, and a 200 carries the page    *)
(* that Site has for the address.                                          *)

\* the bounds of the calls the model makes
MaxChapters == 3
MaxStart == 2

CSS ==
    Lines(<<"<style>",
            "    .chapter-content table {",
            "        background: #004b7a;",
            "        margin: 10px auto;",
            "        width: 90%;",
            "        border: none;",
            "        box-shadow: 1px 1px 1px rgba(0,0,0,.75);",
            "        border-collapse: separate;",
            "        border-spacing: 2px;",
            "    }",
            "    .chapter-content table td {",
            "        color: #ccc;",
            "    }",
            "    </style>",
            "">>)

Origin == "https://www.royalroad.com"

\* the pages of the server: three chapters in a row, and one chapter whose
\* next link leads to itself
Site ==
    [u \in {Origin \o "/c/1", Origin \o "/c/2", Origin \o "/c/3", Origin \o "/c/4"} |->
        IF u = Origin \o "/c/1"
        THEN "<h1 class=\"font-white\"> One </h1><div class=\"chapter-inner\"><p>a</p></div>"
             \o "<div class=\"portlet-body author-note\"><p>n</p></div>"
             \o "<a rel=\"next\" href=\"/c/2\">Next</a>"
        ELSE IF u = Origin \o "/c/2"
        THEN "<div class=\"portlet-body author-note\">t</div>"
             \o "<h1 class=\"font-white\">Two</h1><div class=\"chapter-inner\">b</div>"
             \o "<div class=\"portlet-body author-note\">u</div>"
             \o "<a rel=\"next\" href=\"HTTPS://www.royalroad.com/c/3\">Next</a>"
        ELSE IF u = Origin \o "/c/3"
        THEN "<h1>Three</h1><div class=\"chapter-inner\"></div><a rel=\"prev\" href=\"/c/2\">P</a>"
        ELSE "<h1 class=\"font-white\">Four</h1><a rel=\"next\" href=\"/c/4\">Next</a>"]

\* the status of a response; 0 stands for a fetch that is rejected
Statuses == {0, 200, 429, 500}

\* what fetch(url) resolves to when the server answers with status
Response(url, status) ==
    [status |-> status, ok |-> status \in 200..299,
     text |-> IF status = 200 THEN Site[ToLowerCase(url)] ELSE ""]

\* the selector .a.b: an element with all the classes of cs
HasClasses(n, cs) ==
    /\ n.kind = "el"
    /\ \A c \in cs : IndexOf(" " \o ReplaceAll(Attr(n, "class"), "\n", " ") \o " ",
                             " " \o c \o " ", 1) # 0

\* $(selector).first().html() || ''
FirstHtml(doc, sel) == IF Len(sel) = 0 THEN "" ELSE InnerHtml(doc, sel[1])

\* the S that fetchBook builds for a page
chapterHtml(doc) ==
    LET titles == Select(doc, "h1", "font-white")
        chapterTitle == IF Len(titles) = 0 THEN "" ELSE Trim(TextOf(doc, titles[1]))
        chapterContent ==
            FirstHtml(doc, Ordered(doc, {k \in 1..Len(doc) : HasClasses(doc[k], {"chapter-inner"})}))
        authorNotes ==
            Ordered(doc, {k \in 1..Len(doc) : HasClasses(doc[k], {"portlet-body", "author-note"})})
    IN  "<h1 class=\"chapter\">" \o chapterTitle \o "</h1>\n"
        \o chapterContent
        \o (IF Len(authorNotes) = 1
            THEN "<h3 class=\"author_note\"> Author note </h3>\n"
                 \o InnerHtml(doc, authorNotes[1])
            ELSE IF Len(authorNotes) = 2
            THEN "<h3 class=\"author_note\"> Author note top page </h3>\n"
                 \o InnerHtml(doc, authorNotes[1])
                 \o "<h3 class=\"author_note\"> Author note bottom page </h3>\n"
                 \o InnerHtml(doc, authorNotes[2])
            ELSE "")

\* $('[rel=next]').first().attr('href'), "" when there is none
nextRelOf(doc) ==
    LET links == Ordered(doc, {k \in 1..Len(doc) :
                                  doc[k].kind = "el" /\ Attr(doc[k], "rel") = "next"})
    IN  IF Len(links) = 0 THEN "" ELSE Attr(doc[links[1]], "href")

\* /^https?:\/\//i.test(nextRel) ? nextRel : the address on royalroad.com
absoluteUrl(nextRel) ==
    IF \/ IndexOf(ToLowerCase(nextRel), "http://", 1) = 1
       \/ IndexOf(ToLowerCase(nextRel), "https://", 1) = 1
    THEN nextRel
    ELSE Origin \o nextRel

\* the value fetchBook returns
fetchResult ==
    [book |-> book, lastChapterHtml |-> lastS, fetched |-> chapterCount - 1]

ZipIdle ==
    /\ files = <<>>
    /\ chunks = <<>>
    /\ offset = <<0, 0>>
    /\ result = <<>>
    /\ built = 0
    /\ err = ""
    /\ now = Clock0

\* fetchBook(nextUrl, nbChapters, startChapter) has been called
InitFetch ==
    /\ ZipIdle
    /\ EpubIdle
    /\ nextUrl \in {Origin \o "/c/1", Origin \o "/c/4"}
    /\ nbChapters \in 1..MaxChapters
    /\ startChapter \in 1..MaxStart
    /\ chapterCount = 1
    /\ book = CSS
    /\ lastS = ""
    /\ res = <<>>
    /\ fpc = "while"
    /\ fetchOut = <<>>
    /\ retrieved = 0

\* the first fetch of an iteration of while (chapterCount <= nbChapters)
Fetch ==
    /\ fpc = "while"
    /\ chapterCount <= nbChapters
    /\ \E status \in Statuses :
          IF status = 0
          THEN /\ fpc' = "thrown"
               /\ fetchOut' = [error |-> "fetch failed"]
               /\ UNCHANGED res
          ELSE /\ res' = Response(nextUrl, status)
               /\ fpc' = "got"
               /\ UNCHANGED fetchOut
    /\ UNCHANGED <<nextUrl, nbChapters, startChapter, chapterCount, book, lastS, retrieved>>
    /\ UNCHANGED <<zipVars, epubVars>>

\* while (res.status === 429): await sleep(200)
Sleep ==
    /\ fpc = "got"
    /\ res.status = 429
    /\ fpc' = "slept"
    /\ UNCHANGED <<nextUrl, nbChapters, startChapter, chapterCount, book, lastS, res, fetchOut,
                   retrieved>>
    /\ UNCHANGED <<zipVars, epubVars>>

\* the fetch inside while (res.status === 429)
Refetch ==
    /\ fpc = "slept"
    /\ \E status \in Statuses :
          IF status = 0
          THEN /\ fpc' = "thrown"
               /\ fetchOut' = [error |-> "fetch failed"]
               /\ UNCHANGED res
          ELSE /\ res' = Response(nextUrl, status)
               /\ fpc' = "got"
               /\ UNCHANGED fetchOut
    /\ UNCHANGED <<nextUrl, nbChapters, startChapter, chapterCount, book, lastS, retrieved>>
    /\ UNCHANGED <<zipVars, epubVars>>

\* the rest of the iteration, from if (!res.ok) on
Page ==
    /\ fpc = "got"
    /\ res.status # 429
    /\ IF ~res.ok
       THEN /\ fpc' = "thrown"
            /\ fetchOut' = [error |-> "HTTP " \o ToString(res.status) \o " on " \o nextUrl]
            /\ UNCHANGED <<nextUrl, chapterCount, book, lastS, retrieved>>
       ELSE \E doc \in {loadHtml(res.text)} :
            \E S \in {IF chapterCount >= startChapter THEN chapterHtml(doc) ELSE ""},
               nextRel \in {nextRelOf(doc)} :
               /\ retrieved' = retrieved + 1
               /\ book' = book \o S
               /\ lastS' = IF chapterCount >= startChapter THEN S ELSE lastS
               /\ IF nextRel = ""
                  THEN /\ fpc' = "returned"
                       /\ fetchOut' = [fetchResult EXCEPT !.book = book', !.lastChapterHtml = lastS']
                       /\ UNCHANGED <<nextUrl, chapterCount>>
                  ELSE /\ nextUrl' = absoluteUrl(nextRel)
                       /\ chapterCount' = chapterCount + 1
                       /\ fpc' = "while"
                       /\ UNCHANGED fetchOut
    /\ UNCHANGED <<nbChapters, startChapter, res>>
    /\ UNCHANGED <<zipVars, epubVars>>

\* the loop ends because chapterCount > nbChapters
ReturnBook ==
    /\ fpc = "while"
    /\ chapterCount > nbChapters
    /\ fpc' = "returned"
    /\ fetchOut' = fetchResult
    /\ UNCHANGED <<nextUrl, nbChapters, startChapter, chapterCount, book, lastS, res, retrieved>>
    /\ UNCHANGED <<zipVars, epubVars>>

NextFetch == Fetch \/ Sleep \/ Refetch \/ Page \/ ReturnBook

SpecFetch == InitFetch /\ [][NextFetch]_vars

\* every step of fetchBook that can be taken is taken in the end: the
\* promises it awaits settle
SpecFetchFair ==
    /\ SpecFetch
    /\ WF_vars(Fetch)
    /\ WF_vars(Sleep)
    /\ WF_vars(Refetch)
    /\ WF_vars(Page)
    /\ WF_vars(ReturnBook)

\* C8: fetchBook makes a bounded number of requests whatever the server
\* answers, and so every call returns or raises an error in the end, also
\* when every answer is a 429.
C8_FetchBookEnds == <>(fpc \in {"returned", "thrown"})

-----------------------------------------------------------------------------
(* writeEpubBufferFromParts called with chapters of any titles.            *)

\* the longest list of titles, but for LongTitles
MaxTitles == 2

\* an empty title, whose slug is the fallback chapter, titles with the same
\* slug and titles whose slug begins with a digit
Titles == <<"", "a", "A!", "1", "1 a">>

\* eleven chapters: the ordinals 1 and 11 meet slugs that begin with 1
LongTitles == <<"1 a", "1", "1", "1", "1", "1", "1", "1", "1", "", "a">>

RECURSIVE TitleLists(_)
TitleLists(n) ==
    IF n = 0 THEN {<<>>}
    ELSE {Append(l, t) : l \in TitleLists(n - 1), t \in 1..Len(Titles)}

ChaptersTitled(ts) == [k \in 1..Len(ts) |-> [title |-> ts[k], html |-> "<p>x</p>"]] \o <<>>

\* writeEpubBufferFromParts(chaptersIn, css, opts) is about to run
InitWrite ==
    /\ ZipIdle
    /\ FetchIdle
    /\ items = <<>>
    /\ inputItems = <<>>
    /\ settings = Defaults
    /\ itemIndex = 0
    /\ pc = "write"
    /\ thrown = ""
    /\ \E ts \in {[k \in 1..Len(l) |-> Titles[l[k]]] \o <<>> :
                     l \in UNION {TitleLists(n) : n \in 1..MaxTitles}} \cup {LongTitles} :
          epub = [item |-> 0, html |-> "", chapters |-> ChaptersTitled(ts),
                  css |-> Trim(DEFAULT_CSS)]

\* writeEpubBufferFromParts up to new ZipBuilder()
WriteStart ==
    /\ pc = "write"
    /\ \E r \in 1..Len(RandomStreams) :
          epub' = epub @@ writeEpubBufferFromParts(epub.chapters, epub.css,
                              [title |-> settings.title, author |-> settings.author,
                               language |-> settings.language],
                              RandomStreams[r])
    /\ pc' = "zip"
    /\ UNCHANGED <<zipVars, items, inputItems, settings, itemIndex, thrown>>
    /\ UNCHANGED fetchVars

\* zip.build() and the return of writeEpubBufferFromParts
WriteBuild ==
    /\ pc = "zip"
    /\ items = <<>>
    /\ Len(files) = Len(epub.entries)
    /\ \E r \in {build([files |-> files, chunks |-> chunks, offset |-> offset])} :
           /\ files' = r.zb.files
           /\ chunks' = r.zb.chunks
           /\ offset' = r.zb.offset
           /\ err' = r.err
           /\ result' = r.buffer
           /\ built' = built + 1
           /\ pc' = IF r.err # "" THEN "thrown" ELSE "written"
           /\ thrown' = r.err
    /\ UNCHANGED <<now, items, inputItems, settings, itemIndex, epub>>
    /\ UNCHANGED fetchVars

NextWrite == WriteStart \/ ZipAdd \/ WriteBuild

SpecWrite == InitWrite /\ [][NextWrite]_vars

\* C11: the chapter file names chapter-<ordinal>-<slug>.xhtml of one build
\* are pairwise distinct whatever the titles are, and no two entries of the
\* archive that is built have the same name.
C11_NamesDistinct ==
    /\ (pc \in {"zip", "written"}) =>
          /\ Len(epub.chapterFiles) = Len(epub.chapters)
          /\ \A j \in 1..Len(epub.chapterFiles), k \in 1..Len(epub.chapterFiles) :
                j # k => epub.chapterFiles[j].filename # epub.chapterFiles[k].filename
    /\ pc = "written" =>
          /\ EocdOf(result).count = 5 + Len(epub.chapters)
          /\ \A j \in 1..EocdOf(result).count, k \in 1..EocdOf(result).count :
                j # k => EntryOf(result, j).name # EntryOf(result, k).name

\* an archive has been built for two chapters whose titles have the same slug
C11_Witness ==
    /\ pc = "written"
    /\ Len(epub.chapters) = 2
    /\ epub.chapters[1].title # epub.chapters[2].title
    /\ slugify(epub.chapters[1].title) = slugify(epub.chapters[2].title)
    /\ EntryName(result, 6) = "OEBPS/chapter-1-a.xhtml"
    /\ EntryName(result, 7) = "OEBPS/chapter-2-a.xhtml"

-----------------------------------------------------------------------------
(* crc32 on any bytes: one entry added to a new ZipBuilder.                *)

\* the longest byte sequence, but for the check value 123456789
MaxLen == 3

CrcBytes == <<0, 1, 128, 255>>

RECURSIVE ByteLists(_)
ByteLists(n) ==
    IF n = 0 THEN {<<>>}
    ELSE {Append(l, CrcBytes[b]) : l \in ByteLists(n - 1), b \in 1..Len(CrcBytes)}

CrcInputs ==
    {Bytes(l) : l \in UNION {ByteLists(n) : n \in 0..MaxLen}} \cup {Utf8("123456789")}

\* new ZipBuilder().addFile('a', data, opts)
CrcEntry ==
    /\ files = <<>>
    /\ built = 0
    /\ \E data \in CrcInputs, o \in {NoOpts, [compress |-> FALSE]} :
          \E r \in {addFile([files |-> files, chunks |-> chunks, offset |-> offset],
                            "a", [buf |-> data], o, now)} :
              /\ files' = r.zb.files
              /\ chunks' = r.zb.chunks
              /\ offset' = r.zb.offset
              /\ err' = r.err
    /\ UNCHANGED <<result, built, now>>
    /\ UNCHANGED <<epubVars, fetchVars>>

NextCrc == CrcEntry

SpecCrc == Init /\ [][NextCrc]_vars

(* The standard CRC-32 as a remainder of polynomials over GF(2).  The       *)
(* message is the bits of the bytes, least significant bit first, followed *)
(* by 32 zero bits, with its first 32 bits complemented; the CRC is the     *)
(* complement of its remainder modulo the generator, the coefficient of    *)
(* x^31 in bit 0.                                                           *)

\* x^32 + x^26 + x^23 + x^22 + x^16 + x^12 + x^11 + x^10 + x^8 + x^7 + x^5
\* + x^4 + x^2 + x + 1, highest power first
Generator ==
    <<1, 0,0,0,0, 0,1,0,0, 1,1,0,0, 0,0,0,1, 0,0,0,1, 1,1,0,1, 1,0,1,1, 0,1,1,1>>

MessageBits(bs) ==
    [k \in 1..(8 * Len(bs) + 32) |->
        LET b == IF k <= 8 * Len(bs)
                 THEN (bs[((k - 1) \div 8) + 1] \div (2 ^ ((k - 1) % 8))) % 2
                 ELSE 0
        IN  IF k <= 32 THEN 1 - b ELSE b]

\* the division, from the coefficient at i on
RECURSIVE Remainder(_, _, _)
Remainder(m, i, n) ==
    IF i > n THEN SubSeq(m, n + 1, n + 32)
    ELSE Remainder(IF m[i] = 0 THEN m
                   ELSE [k \in 1..Len(m) |->
                            IF k >= i /\ k <= i + 32
                            THEN (m[k] + Generator[(k - i) + 1]) % 2
                            ELSE m[k]],
                   i + 1, n)

RECURSIVE BitsValue(_, _)
BitsValue(r, k) == IF k > Len(r) THEN 0 ELSE (1 - r[k]) + (2 * BitsValue(r, k + 1))

StandardCrc(bs) ==
    LET r == Remainder(MessageBits(bs), 1, 8 * Len(bs))
    IN  <<BitsValue(SubSeq(r, 17, 32), 1), BitsValue(SubSeq(r, 1, 16), 1)>>

\* the bytes that were given for the entry that the builder holds
EntryData ==
    IF files[1].method = 0 THEN chunks[2].bytes ELSE inflateRaw(chunks[2].bytes)

\* C12: crc32 is the standard reflected CRC-32 of the bytes, a number in
\* 0..2^32-1, it is 0 for no bytes and 0xCBF43926 for 123456789, and the crc
\* that an entry records is the one of its uncompressed bytes, stored or
\* deflated.
C12_StandardCrc ==
    Len(files) = 1 =>
        LET l == LocalAt(chunks, <<0, 0>>)
        IN  /\ l.method = files[1].method
            /\ l.uncompSize = Num(Len(EntryData))
            /\ files[1].crc = StandardCrc(EntryData)
            /\ l.crc = files[1].crc
            /\ files[1].crc[1] \in 0..65535
            /\ files[1].crc[2] \in 0..65535
            /\ (EntryData = <<>> => l.crc = <<0, 0>>)
            /\ (EntryData = Utf8("123456789").bytes => l.crc = <<52212, 14630>>)

\* the check value has been added as a deflated entry
C12_Witness ==
    /\ Len(files) = 1
    /\ files[1].method = 8
    /\ EntryData = Utf8("123456789").bytes
    /\ chunks[2].bytes # EntryData
    /\ files[1].crc = <<52212, 14630>>

-----------------------------------------------------------------------------
(* Claims about what fetchBook returns, checked under SpecFetch.           *)

\* C13: the count fetched that fetchBook returns is the number of pages it
\* has retrieved, when the loop ends at nbChapters and when it ends at a
\* page without rel=next.
C13_FetchedIsRetrieved ==
    fpc = "returned" => fetchOut.fetched = retrieved
====
